---- MODULE Spec2Model ----
(***************************************************************************)
(* Model of update_weather.py: fetch_data (history fetch and weighted      *)
(* aggregation, forecast fetch and weighted aggregation, merge and         *)
(* de-duplication) and generate_files (CSV rows and Pine snippet).         *)
(*                                                                         *)
(* Numbers.  Temperatures are whole degrees Celsius, location weights are  *)
(* hundredths (0.35 is 35), so temp * weight, avg_temp, open, high, low    *)
(* and close are hundredths of a degree and 18.33 is 1833.  The sums and   *)
(* differences the program computes are exact in this fixed-point form;    *)
(* the rounding of IEEE doubles is not modelled.                           *)
(*                                                                         *)
(* Files.  A write (to_csv, open(..., "w") and f.write) replaces the file  *)
(* in one step.  A run starts with the files an earlier run may have left. *)
(*                                                                         *)
(* Strings are sequences of character codes ("2024-01-01" is               *)
(* <<50,48,50,52,45,48,49,45,48,49>>), so that split, string comparison    *)
(* and string formatting are computed on characters.                       *)
(*                                                                         *)
(* A JSON value that may be null is a set: {} is null, {n} the number n.   *)
(* A JSON object (dict) is a set of <<key, value>> pairs.                  *)
(***************************************************************************)
EXTENDS Integers, Sequences, FiniteSets, TLC

\* ---------------------------------------------------------------- bounds
NumLocs == 2      \* locations of LOCATIONS the loops visit
NumDates == 2     \* distinct calendar dates a provider may report
MaxDays == 1      \* day entries in one provider payload

\* ---------------------------------------------------------- configuration
\* lines 11-17, name and weight in hundredths (lat and lon only build the
\* request URL).  Line 16 carries a stray quote after 33.7490; the entry is
\* read as the Atlanta location it is written to be.
LOCATIONS ==
    << [name |-> "Chicago",  weight |-> 35],
       [name |-> "New York", weight |-> 30],
       [name |-> "Denver",   weight |-> 15],
       [name |-> "Houston",  weight |-> 10],
       [name |-> "Atlanta",  weight |-> 10] >>

\* the locations the loops of lines 31 and 68 visit
Basket == SubSeq(LOCATIONS, 1, NumLocs)

\* the temperatures a provider may report, whole degrees Celsius
Temps == {10, 30}

\* --------------------------------------------------------------- strings
CharT == 84

DatePrefix == <<50, 48, 50, 52, 45, 48, 49, 45, 48>>                \* "2024-01-0"
DateStr(d) == DatePrefix \o <<48 + d>>                           \* "2024-01-0d"
ForecastSuffix == <<CharT, 48, 54, 58, 48, 48, 58, 48, 48, 90>>     \* "T06:00:00Z"
MidnightSuffix == <<CharT, 48, 48, 58, 48, 48, 58, 48, 48, 90>>     \* "T00:00:00Z"

Dates == {DateStr(d) : d \in 1..NumDates}
Timestamps == Dates \cup {d \o ForecastSuffix : d \in Dates}

RECURSIVE IndexFrom(_, _, _)
IndexFrom(s, c, k) ==
    IF k > Len(s) THEN 0
    ELSE IF s[k] = c THEN k
    ELSE IndexFrom(s, c, k + 1)

\* s.split(c)[0]
SplitHead(s, c) ==
    LET k == IndexFrom(s, c, 1)
    IN  IF k = 0 THEN s ELSE SubSeq(s, 1, k - 1)

\* Python's str < str: lexicographic on character codes
RECURSIVE StrLess(_, _)
StrLess(a, b) ==
    IF b = <<>> THEN FALSE
    ELSE IF a = <<>> THEN TRUE
    ELSE IF Head(a) # Head(b) THEN Head(a) < Head(b)
    ELSE StrLess(Tail(a), Tail(b))

\* ------------------------------------------------------ generic helpers
BoundedSeq(S, n) == UNION {[1..k -> S] : k \in 0..n}

Max(a, b) == IF a >= b THEN a ELSE b

RECURSIVE SelectRows(_, _)
SelectRows(df, keep) ==
    IF df = <<>> THEN <<>>
    ELSE IF keep[1] THEN <<Head(df)>> \o SelectRows(Tail(df), Tail(keep))
    ELSE SelectRows(Tail(df), Tail(keep))

Times(df) == {df[k].time : k \in DOMAIN df}

\* ------------------------------------------------------------- responses
Null == {}
JsonTemps == {Null} \cup {{t} : t \in Temps}

\* data['daily'] of the archive API: two parallel lists
HistDaily ==
    UNION {[time : [1..k -> Dates], temperature_2m_mean : [1..k -> JsonTemps]]
           : k \in 0..MaxDays}

NoDaily == [time |-> <<>>, temperature_2m_mean |-> <<>>]

\* "error": requests.get or r.json() raises; "nodaily": no 'daily' key
HistResponses ==
    {[kind |-> "error", daily |-> NoDaily], [kind |-> "nodaily", daily |-> NoDaily]}
    \cup {[kind |-> "ok", daily |-> d] : d \in HistDaily}

\* day['values'] of the forecast API, with or without 'temperatureAvg'
ForeValues == {{}} \cup {{<<"temperatureAvg", t>>} : t \in Temps}
ForeDay == [time : Timestamps, values : ForeValues]
ForeTimelines == BoundedSeq(ForeDay, MaxDays)

\* "error": requests.get or r.json() raises; "status": status_code # 200
ForeResponses ==
    {[kind |-> "error", daily |-> <<>>], [kind |-> "status", daily |-> <<>>]}
    \cup {[kind |-> "ok", daily |-> t] : t \in ForeTimelines}

\* ------------------------------------------------ history: pandas frames
\* pd.DataFrame({'time': ..., 'temp': ...}) with df['weight'] = loc['weight']
HistFrame(daily, weight) ==
    [k \in 1..Len(daily.time) |->
        [time |-> daily.time[k], temp |-> daily.temperature_2m_mean[k], weight |-> weight]]

\* pd.concat(frames)
RECURSIVE Concat(_)
Concat(frames) ==
    IF frames = <<>> THEN <<>> ELSE Head(frames) \o Concat(Tail(frames))

\* full_hist['temp'] * full_hist['weight']: NaN where temp is NaN
WeightedTemp(row) ==
    IF row.temp = Null THEN Null ELSE {t * row.weight : t \in row.temp}

\* Series.sum() of one group: NaN cells are skipped, an all-NaN group sums to 0
RECURSIVE GroupSum(_, _)
GroupSum(full, key) ==
    IF full = <<>> THEN 0
    ELSE LET w == WeightedTemp(Head(full))
             v == IF Head(full).time = key /\ w # Null THEN CHOOSE x \in w : TRUE ELSE 0
         IN  v + GroupSum(Tail(full), key)

\* the distinct keys of a groupby, ascending
RECURSIVE SortedKeys(_)
SortedKeys(S) ==
    IF S = {} THEN <<>>
    ELSE LET m == CHOOSE x \in S : \A y \in S : ~StrLess(y, x)
         IN  <<m>> \o SortedKeys(S \ {m})

\* full_hist.groupby('time')['weighted_temp'].sum().reset_index(), renamed
GroupByTimeSum(full) ==
    LET keys == SortedKeys(Times(full))
    IN  [k \in DOMAIN keys |-> [time |-> keys[k], avg_temp |-> GroupSum(full, keys[k])]]

\* lines 51-56
AggregateHistory(frames) ==
    IF frames # <<>> THEN GroupByTimeSum(Concat(frames)) ELSE <<>>

\* ------------------------------------------------- forecast: the fore_map
\* dict.get(key, default)
DictGet(d, key, default) ==
    IF \E p \in d : p[1] = key
    THEN (CHOOSE p \in d : p[1] = key)[2]
    ELSE default

\* mutant: fore_map[dt] = temp * weight, the last reading of a date wins
ForeDayStepAssign(map, day, weight) ==
    LET dt == SplitHead(day.time, CharT)
        temp == DictGet(day.values, "temperatureAvg", 0)
        m1 == IF dt \notin Times(map)
              THEN Append(map, [time |-> dt, avg_temp |-> 0])
              ELSE map
    IN  [k \in DOMAIN m1 |->
            IF m1[k].time = dt
            THEN [m1[k] EXCEPT !.avg_temp = temp * weight]
            ELSE m1[k]]

\* fore_map is a dict in insertion order: a sequence of [time, avg_temp]
\* lines 75-80, one day of one location
ForeDayStep(map, day, weight) ==
    LET dt == SplitHead(day.time, CharT)
        temp == DictGet(day.values, "temperatureAvg", 0)
        m1 == IF dt \notin Times(map)
              THEN Append(map, [time |-> dt, avg_temp |-> 0])
              ELSE map
    IN  [k \in DOMAIN m1 |->
            IF m1[k].time = dt
            THEN [m1[k] EXCEPT !.avg_temp = @ + temp * weight]
            ELSE m1[k]]

\* lines 73-80, the timelines of one location
RECURSIVE ForeLocation(_, _, _)
ForeLocation(map, timelines, weight) ==
    IF timelines = <<>> THEN map
    ELSE ForeLocation(ForeDayStep(map, Head(timelines), weight), Tail(timelines), weight)

\* the day entries of one location as readings [time, values, weight]
ForeReadings(timelines, weight) ==
    [k \in DOMAIN timelines |->
        [time |-> timelines[k].time, values |-> timelines[k].values, weight |-> weight]]

\* fore_map folded over a sequence of readings
RECURSIVE ForeFold(_, _)
ForeFold(map, readings) ==
    IF readings = <<>> THEN map
    ELSE ForeFold(ForeDayStep(map, Head(readings), Head(readings).weight), Tail(readings))

\* lines 82-83
ForecastFrame(map) == IF map # <<>> THEN map ELSE <<>>

\* ---------------------------------------------------------- merge & clean
\* mutant: keep='first', the history row of a shared date stays
DropDuplicatesFirst(df) ==
    SelectRows(df, [k \in DOMAIN df |->
                       ~\E j \in DOMAIN df : j < k /\ df[j].time = df[k].time])

\* df.drop_duplicates(subset='time', keep='last')
DropDuplicatesLast(df) ==
    SelectRows(df, [k \in DOMAIN df |->
                       ~\E j \in DOMAIN df : j > k /\ df[j].time = df[k].time])

\* df.sort_values('time')
RECURSIVE Insert(_, _)
Insert(sorted, row) ==
    IF sorted = <<>> THEN <<row>>
    ELSE IF StrLess(row.time, Head(sorted).time) THEN <<row>> \o sorted
    ELSE <<Head(sorted)>> \o Insert(Tail(sorted), row)

\* mutant: the sort is left out
SortValuesSkipped(df) == df

RECURSIVE SortValues(_)
SortValues(df) ==
    IF df = <<>> THEN <<>>
    ELSE Insert(SortValues(SubSeq(df, 1, Len(df) - 1)), df[Len(df)])

\* lines 89-95
ConcatSources(hist, fore) ==
    IF hist # <<>> /\ fore # <<>> THEN hist \o fore
    ELSE IF hist # <<>> THEN hist
    ELSE IF fore # <<>> THEN fore
    ELSE <<>>

\* lines 97-100
Clean(df) ==
    IF df # <<>> THEN SortValues(DropDuplicatesLast(df)) ELSE df

\* lines 88-102
MergeClean(hist, fore) == Clean(ConcatSources(hist, fore))

\* ------------------------------------------------------- generate_files
BaseTemp == 1833
PineWindow == 365

NoFile == [exists |-> FALSE, kind |-> "none", rows |-> <<>>, times |-> <<>>]

\* mutant: close = 18.33 - x, negative above the base
CsvRowUnclamped(p) ==
    [time   |-> p.time \o MidnightSuffix,
     open   |-> p.avg_temp,
     high   |-> p.avg_temp + 200,
     low    |-> p.avg_temp - 200,
     close  |-> BaseTemp - p.avg_temp,
     volume |-> 0]

\* lines 113-122, one row of the CSV
CsvRow(p) ==
    [time   |-> p.time \o MidnightSuffix,
     open   |-> p.avg_temp,
     high   |-> p.avg_temp + 200,
     low    |-> p.avg_temp - 200,
     close  |-> Max(0, BaseTemp - p.avg_temp),
     volume |-> 0]

\* lines 112-123: to_csv replaces the file by the header and the rows
CsvFile(df) ==
    [exists |-> TRUE, kind |-> "csv",
     rows |-> [k \in DOMAIN df |-> CsvRow(df[k])], times |-> <<>>]

\* df.tail(n)
TailRows(df, n) ==
    IF Len(df) <= n THEN df ELSE SubSeq(df, Len(df) - n + 1, Len(df))

RECURSIVE ParseInt(_)
ParseInt(s) ==
    IF s = <<>> THEN 0 ELSE 10 * ParseInt(SubSeq(s, 1, Len(s) - 1)) + (s[Len(s)] - 48)

\* days since 1970-01-01 of a civil date
DaysFromCivil(y, m, d) ==
    LET yy == IF m <= 2 THEN y - 1 ELSE y
        era == yy \div 400
        yoe == yy - era * 400
        mp == IF m > 2 THEN m - 3 ELSE m + 9
        doy == (153 * mp + 2) \div 5 + d - 1
        doe == yoe * 365 + yoe \div 4 - yoe \div 100 + doy
    IN  era * 146097 + doe - 719468

\* datetime.strptime(x, "%Y-%m-%d").timestamp(), in seconds (UTC runner);
\* unix_ms is this value times 1000
UnixSeconds(x) ==
    DaysFromCivil(ParseInt(SubSeq(x, 1, 4)), ParseInt(SubSeq(x, 6, 7)),
                  ParseInt(SubSeq(x, 9, 10))) * 86400

\* lines 127-158: the snippet's two parallel arrays
PineFile(df) ==
    LET recent == TailRows(df, PineWindow)
    IN  [exists |-> TRUE, kind |-> "pine",
         rows |-> [k \in DOMAIN recent |-> Max(0, BaseTemp - recent[k].avg_temp)],
         times |-> [k \in DOMAIN recent |-> UnixSeconds(recent[k].time)]]

\* line 108: "// No Data"
NoDataPine == [exists |-> TRUE, kind |-> "nodata", rows |-> <<>>, times |-> <<>>]

\* mutant: no early return, the CSV is written from an empty frame too
GenerateFilesAlways(df, files) ==
    [csv |-> CsvFile(df), pine |-> PineFile(df)]

\* mutant: the CSV is opened for appending
GenerateFilesAppend(df, files) ==
    IF df = <<>>
    THEN [csv |-> files.csv, pine |-> NoDataPine]
    ELSE [csv |-> [CsvFile(df) EXCEPT !.rows = files.csv.rows \o @],
          pine |-> PineFile(df)]

\* lines 104-159: the files after generate_files(df), given the files before
GenerateFiles(df, files) ==
    IF df = <<>>
    THEN [csv |-> files.csv, pine |-> NoDataPine]
    ELSE [csv |-> CsvFile(df), pine |-> PineFile(df)]

\* the files a run can find: none (fresh checkout), or those an earlier run
\* left, with data (Chicago alone reporting 10 degrees for 2024-01-01) or without
PriorResult == <<[time |-> DateStr(1), avg_temp |-> 350]>>

PriorFiles ==
    {[csv |-> NoFile, pine |-> NoFile],
     [csv |-> NoFile, pine |-> NoDataPine],
     [csv |-> CsvFile(PriorResult), pine |-> PineFile(PriorResult)],
     [csv |-> CsvFile(PriorResult), pine |-> NoDataPine]}

\* ---------------------------------------------------------------- state
VARIABLES
    pc,             \* position of the run: "hist", "fore", "merge", "gen", "done"
    i,              \* index into LOCATIONS of the loop at pc
    api_key,        \* whether TOMORROW_API_KEY is set for this run
    hist_frames,    \* the list of per-location frames
    daily_hist,     \* aggregated history, rows [time, avg_temp]
    fore_map,       \* the forecast accumulator
    fore_readings,  \* history variable: the day entries folded into fore_map
    daily_fore,     \* aggregated forecast, rows [time, avg_temp]
    df_final,       \* what fetch_data returns
    csv,            \* US_AGGREGATE_NATGAS.csv
    pine,           \* pine_code.txt
    files0          \* history variable: the two files when the run started

vars == <<pc, i, api_key, hist_frames, daily_hist, fore_map, fore_readings,
          daily_fore, df_final, csv, pine, files0>>

Init ==
    /\ pc = "hist"
    /\ i = 1
    /\ api_key \in BOOLEAN
    /\ hist_frames = <<>>
    /\ daily_hist = <<>>
    /\ fore_map = <<>>
    /\ fore_readings = <<>>
    /\ daily_fore = <<>>
    /\ df_final = <<>>
    /\ files0 \in PriorFiles
    /\ csv = files0.csv
    /\ pine = files0.pine

\* lines 31-49: one iteration of the history loop; an exception leaves the
\* loop for the except clause of line 58 with daily_hist still empty
HistFetch ==
    /\ pc = "hist"
    /\ i <= Len(Basket)
    /\ \E r \in HistResponses :
        IF r.kind = "error"
        THEN /\ pc' = "fore"
             /\ i' = 1
             /\ UNCHANGED hist_frames
        ELSE /\ hist_frames' = IF r.kind = "ok"
                               THEN Append(hist_frames, HistFrame(r.daily, Basket[i].weight))
                               ELSE hist_frames
             /\ i' = i + 1
             /\ pc' = pc
    /\ UNCHANGED <<api_key, daily_hist, fore_map, fore_readings, daily_fore,
                   df_final, csv, pine, files0>>

\* lines 51-57: after the loop
HistAggregate ==
    /\ pc = "hist"
    /\ i > Len(Basket)
    /\ daily_hist' = AggregateHistory(hist_frames)
    /\ pc' = "fore"
    /\ i' = 1
    /\ UNCHANGED <<api_key, hist_frames, fore_map, fore_readings, daily_fore,
                   df_final, csv, pine, files0>>

\* line 65: no API key, no forecast
ForeSkip ==
    /\ pc = "fore"
    /\ ~api_key
    /\ pc' = "merge"
    /\ UNCHANGED <<i, api_key, hist_frames, daily_hist, fore_map, fore_readings,
                   daily_fore, df_final, csv, pine, files0>>

\* lines 68-80: one iteration of the forecast loop; an exception leaves the
\* loop for the except clause of line 85 with daily_fore still empty
ForeFetch ==
    /\ pc = "fore"
    /\ api_key
    /\ i <= Len(Basket)
    /\ \E r \in ForeResponses :
        IF r.kind = "error"
        THEN /\ pc' = "merge"
             /\ UNCHANGED <<i, fore_map, fore_readings>>
        ELSE /\ fore_map' = IF r.kind = "ok"
                            THEN ForeLocation(fore_map, r.daily, Basket[i].weight)
                            ELSE fore_map
             /\ fore_readings' = IF r.kind = "ok"
                                 THEN fore_readings \o ForeReadings(r.daily, Basket[i].weight)
                                 ELSE fore_readings
             /\ i' = i + 1
             /\ pc' = pc
    /\ UNCHANGED <<api_key, hist_frames, daily_hist, daily_fore, df_final, csv, pine, files0>>

\* lines 82-84: after the loop
ForeAggregate ==
    /\ pc = "fore"
    /\ api_key
    /\ i > Len(Basket)
    /\ daily_fore' = ForecastFrame(fore_map)
    /\ pc' = "merge"
    /\ UNCHANGED <<i, api_key, hist_frames, daily_hist, fore_map, fore_readings,
                   df_final, csv, pine, files0>>

\* lines 88-102
Merge ==
    /\ pc = "merge"
    /\ df_final' = MergeClean(daily_hist, daily_fore)
    /\ pc' = "gen"
    /\ UNCHANGED <<i, api_key, hist_frames, daily_hist, fore_map, fore_readings,
                   daily_fore, csv, pine, files0>>

\* lines 162-163 and 104-159: generate_files(df)
Generate ==
    /\ pc = "gen"
    /\ LET files == GenerateFiles(df_final, [csv |-> csv, pine |-> pine])
       IN  /\ csv' = files.csv
           /\ pine' = files.pine
    /\ pc' = "done"
    /\ UNCHANGED <<i, api_key, hist_frames, daily_hist, fore_map, fore_readings,
                   daily_fore, df_final, files0>>

Next ==
    \/ HistFetch
    \/ HistAggregate
    \/ ForeSkip
    \/ ForeFetch
    \/ ForeAggregate
    \/ Merge
    \/ Generate

Spec == Init /\ [][Next]_vars

\* ------------------------------------------------ readings, for the claims
\* the rows the history loop collected, as readings [date, temp, weight]
HistReadings ==
    LET rows == Concat(hist_frames)
    IN  [k \in DOMAIN rows |->
            [date |-> rows[k].time, temp |-> rows[k].temp, weight |-> rows[k].weight]]

\* the day entries the forecast loop consumed, as readings [date, temp, weight]
ForeNormalized ==
    [k \in DOMAIN fore_readings |->
        [date |-> SplitHead(fore_readings[k].time, CharT),
         temp |-> {q[2] : q \in {v \in fore_readings[k].values : v[1] = "temperatureAvg"}},
         weight |-> fore_readings[k].weight]]

\* some reading of date d carries a temperature
Reported(rs, d) == \E k \in DOMAIN rs : rs[k].date = d /\ rs[k].temp # Null

\* sum of temperature * weight over the readings of date d that carry a temperature
RECURSIVE WeightedSum(_, _)
WeightedSum(rs, d) ==
    IF rs = <<>> THEN 0
    ELSE (IF Head(rs).date = d /\ Head(rs).temp # Null
          THEN (CHOOSE t \in Head(rs).temp : TRUE) * Head(rs).weight
          ELSE 0) + WeightedSum(Tail(rs), d)

\* sum of weight over the readings of date d that carry a temperature
RECURSIVE WeightSum(_, _)
WeightSum(rs, d) ==
    IF rs = <<>> THEN 0
    ELSE (IF Head(rs).date = d /\ Head(rs).temp # Null THEN Head(rs).weight ELSE 0)
         + WeightSum(Tail(rs), d)

\* avg_temp (hundredths of a degree) is the weighted mean of the readings of
\* its date that carry a temperature: avg_temp / 100 = (sum t*w/100) / (sum w/100)
IsWeightedMean(p, rs) ==
    p.avg_temp * WeightSum(rs, p.time) = 100 * WeightedSum(rs, p.time)

Rows(df) == {df[k] : k \in DOMAIN df}

ValueAt(df, d) == (CHOOSE r \in Rows(df) : r.time = d).avg_temp

Perms(s) == {[k \in DOMAIN s |-> s[f[k]]] : f \in Permutations(DOMAIN s)}

Merged == pc \in {"gen", "done"}

ForecastEnded == pc \in {"merge", "gen", "done"}

\* ---------------------------------------------------------------- claims

\* C1: for each source and each date with a reading that carries a temperature,
\* the aggregated value is the weighted mean of just the reporting readings
\* (their weighted temperature sum divided by their weight sum).
C1_WeightedMeanOfReporters ==
    /\ \A k \in DOMAIN daily_hist :
          Reported(HistReadings, daily_hist[k].time)
              => IsWeightedMean(daily_hist[k], HistReadings)
    /\ \A k \in DOMAIN daily_fore :
          Reported(ForeNormalized, daily_fore[k].time)
              => IsWeightedMean(daily_fore[k], ForeNormalized)

\* C2: the merged series has exactly one point for each date of the union of
\* the two aggregated series; a date of the forecast carries the forecast
\* value, a date of the history alone carries the history value.
C2_MergeUnionForecastWins ==
    Merged =>
        /\ Times(df_final) = Times(daily_hist) \cup Times(daily_fore)
        /\ Len(df_final) = Cardinality(Times(df_final))
        /\ \A k \in DOMAIN df_final :
              df_final[k].avg_temp =
                  IF df_final[k].time \in Times(daily_fore)
                  THEN ValueAt(daily_fore, df_final[k].time)
                  ELSE ValueAt(daily_hist, df_final[k].time)

C2_Witness ==
    /\ pc = "gen"
    /\ \E d \in Times(daily_hist) \cap Times(daily_fore) :
          /\ ValueAt(daily_hist, d) # ValueAt(daily_fore, d)
          /\ ValueAt(df_final, d) = ValueAt(daily_fore, d)
    /\ Times(daily_hist) \ Times(daily_fore) # {}
    /\ Len(df_final) = 2

\* C3: the dates of a non-empty result of fetch_data, and the times of the
\* rows of the CSV written from it, are strictly ascending (as strings and as
\* calendar days), so no two rows share a date.
C3_StrictlyAscendingDates ==
    /\ Merged =>
          \A k \in 1..(Len(df_final) - 1) :
              /\ StrLess(df_final[k].time, df_final[k + 1].time)
              /\ UnixSeconds(df_final[k].time) < UnixSeconds(df_final[k + 1].time)
    /\ (pc = "done" /\ df_final # <<>>) =>
          /\ Len(csv.rows) = Len(df_final)
          /\ \A k \in 1..(Len(csv.rows) - 1) :
                StrLess(csv.rows[k].time, csv.rows[k + 1].time)

C3_Witness ==
    /\ pc = "done"
    /\ Len(csv.rows) = 2
    /\ Len(daily_fore) = 2
    /\ StrLess(daily_fore[2].time, daily_fore[1].time)
    /\ daily_hist # <<>>

\* C4: a location whose retrieval or decoding fails does not abort the
\* source: the readings of the locations that succeeded still make up the
\* source's aggregated series, which is then not empty.
C4_FailureKeepsOtherLocations ==
    /\ (pc # "hist" /\ HistReadings # <<>>) => daily_hist # <<>>
    /\ (ForecastEnded /\ api_key /\ fore_readings # <<>>) => daily_fore # <<>>

\* C5: a day entry without a temperature is excluded from aggregation: the
\* aggregated series of a source is the one its readings give with those
\* entries left out.
C5_MissingTemperatureExcluded ==
    /\ daily_hist # <<>> =>
          daily_hist =
              LET rows == Concat(hist_frames)
                  kept == SelectRows(rows, [k \in DOMAIN rows |-> rows[k].temp # Null])
              IN  IF kept = <<>> THEN <<>> ELSE GroupByTimeSum(kept)
    /\ daily_fore # <<>> =>
          Rows(daily_fore) =
              Rows(ForeFold(<<>>,
                   SelectRows(fore_readings,
                       [k \in DOMAIN fore_readings |-> fore_readings[k].values # {}])))

\* C6: a date for which no location reported a temperature in a source has
\* no point in that source's aggregated series, and a date no location
\* reported in either source has no row in the merged output.
C6_UnreportedDateDropped ==
    /\ \A d \in Times(daily_hist) : Reported(HistReadings, d)
    /\ \A d \in Times(daily_fore) : Reported(ForeNormalized, d)
    /\ Merged =>
          \A d \in Times(df_final) :
              Reported(HistReadings, d) \/ Reported(ForeNormalized, d)

\* Python's round(n / 10) for n >= 0: to the nearest integer, halves to even
RoundTenth(n) ==
    LET q == n \div 10
        r == n % 10
    IN  IF r < 5 THEN q
        ELSE IF r > 5 THEN q + 1
        ELSE IF q % 2 = 0 THEN q ELSE q + 1

HDD(T) == Max(0, BaseTemp - T)
CDD(T) == Max(0, T - BaseTemp)

DegreeDaysExclusive(T) ==
    /\ HDD(T) = 0 \/ CDD(T) = 0
    /\ HDD(T) - CDD(T) = BaseTemp - T

C8_NoDataWritesPlaceholderOnly ==
    (pc = "done" /\ df_final = <<>>) =>
        /\ csv = files0.csv
        /\ pine = NoDataPine
        /\ pine.rows = <<>> /\ pine.times = <<>>

C8_Witness ==
    /\ pc = "done"
    /\ df_final = <<>>
    /\ hist_frames # <<>>
    /\ files0.pine # NoDataPine
    /\ pine = NoDataPine
    /\ csv = NoFile

\* C9 as claimed: after a run the CSV is determined by the input of that run
\* alone (a run without data, started without a CSV, ends without one, so a
\* run without data always would).
C9_CsvFromLastRunOnly ==
    pc = "done" => csv = IF df_final = <<>> THEN NoFile ELSE CsvFile(df_final)

\* C9 amended: a run whose merged series is not empty replaces the CSV by the
\* rows computed from that run's input alone, nothing of the earlier file
\* staying; a run whose merged series is empty leaves the CSV as it found it.
C9_CsvReplacedWhenData ==
    pc = "done" =>
        /\ df_final # <<>> =>
              /\ csv = CsvFile(df_final)
              /\ Len(csv.rows) = Len(df_final)
              /\ pine = PineFile(df_final)
        /\ df_final = <<>> => csv = files0.csv

C9_Witness ==
    /\ pc = "done"
    /\ files0.csv.exists
    /\ df_final # <<>>
    /\ csv # files0.csv
    /\ Len(csv.rows) = Len(df_final)

====
